---- MODULE Spec2Model ----
(***************************************************************************)
(* Model of mjhmc/misc/tf_distributions.py: the TensorflowDistribution     *)
(* adapter (graph construction, device resolution, session, E_val,         *)
(* dEdX_val) and the energy definitions Funnel, TFGaussian and             *)
(* SparseImageCode.                                                        *)
(*                                                                         *)
(* Numbers are exact: a value is  n/d + e*exp(-x0) + sum of l  where l is  *)
(* a bag of terms lambda*log(k).  Arrays are sequences, indexed from 1     *)
(* (python index r is r+1 here).                                           *)
(***************************************************************************)
EXTENDS Integers, Sequences, FiniteSets, Bags, TLC

\* ------------------------------------------------------------------ bounds
MaxBatch == 2            \* nbatch ranges over 1..MaxBatch
Ndims == {2, 3}          \* ndims of Funnel and TFGaussian
Entries == {0, 2}        \* the entries a batch X is built from
Objs == {1, 2}           \* object slots (two instances for pairwise claims)

\* ------------------------------------------------------------ exact values
Rat(n, d) == [n |-> n, d |-> d, e |-> 0, l |-> EmptyBag]
Zero == Rat(0, 1)
Add(a, b) ==
    [n |-> IF a.d = b.d THEN a.n + b.n ELSE a.n * b.d + b.n * a.d,
     d |-> IF a.d = b.d THEN a.d ELSE a.d * b.d,
     e |-> a.e + b.e,
     l |-> a.l (+) b.l]
Neg(a) == [a EXCEPT !.n = -a.n, !.e = -a.e]
DivInt(a, k) == [a EXCEPT !.d = a.d * k]
ValEq(a, b) == a.n * b.d = b.n * a.d /\ a.e = b.e /\ a.l = b.l
RECURSIVE SumSeq(_)
SumSeq(s) == IF s = <<>> THEN Zero ELSE Add(s[1], SumSeq(Tail(s)))
Sq(x) == x * x
Abs(x) == IF x < 0 THEN -x ELSE x

\* x / exp(x0): a multiple of exp(-x0); exp(0) = 1 folds it into the rational
DivExp(x, x0) ==
    IF x0 = 0 THEN Rat(x, 1) ELSE [n |-> 0, d |-> 1, e |-> x, l |-> EmptyBag]

ReduceSum0(M) == [j \in 1..Len(M[1]) |-> SumSeq([k \in 1..Len(M) |-> M[k][j]])]
ReduceSumLast(M) == [p \in 1..Len(M) |-> [j \in 1..Len(M[p]) |-> SumSeq(M[p][j])]]
ReduceMean0(M) ==
    [j \in 1..Len(M[1]) |-> DivInt(SumSeq([k \in 1..Len(M) |-> M[k][j]]), Len(M))]

VecEq(u, v) == Len(u) = Len(v) /\ \A j \in 1..Len(u) : ValEq(u[j], v[j])
MatEq(A, B) == Len(A) = Len(B) /\ \A r \in 1..Len(A) : VecEq(A[r], B[r])
Shape1(v) == <<Len(v)>>
Shape2(M) == <<Len(M), IF Len(M) = 0 THEN 0 ELSE Len(M[1])>>

\* the batches of shape [nd, b]
Batches(nd, b) == [1..nd -> [1..b -> Entries]]
Column(X, j) == [r \in 1..Len(X) |-> <<X[r][j]>>]

\* ------------------------------------------------------------------ Funnel
Funnel_e_x_0(scale, X) ==
    [j \in 1..Len(X[1]) |-> Neg(Rat(Sq(X[1][j]), Sq(scale)))]
Funnel_e_x_k(X) ==
    [k \in 1..(Len(X) - 1) |->
        [j \in 1..Len(X[1]) |-> Neg(DivExp(Sq(X[k + 1][j]), X[1][j]))]]
\* tf.add of a [b] tensor and a [ndims-1, b] tensor: the vector is broadcast
\* over the rows
BroadcastAdd(v, M) == [k \in 1..Len(M) |-> [j \in 1..Len(M[k]) |-> Add(v[j], M[k][j])]]
Funnel_energy_op(scale, X) ==
    ReduceSum0(BroadcastAdd(Funnel_e_x_0(scale, X), Funnel_e_x_k(X)))
\* tf.gradients of the sum of energy_op with respect to state_pl
Funnel_grad_op(scale, X) ==
    [r \in 1..Len(X) |-> [j \in 1..Len(X[1]) |->
        IF r = 1
        THEN Add(SumSeq([k \in 1..(Len(X) - 1) |-> Neg(Rat(2 * X[1][j], Sq(scale)))]),
                 SumSeq([k \in 1..(Len(X) - 1) |-> DivExp(Sq(X[k + 1][j]), X[1][j])]))
        ELSE Neg(DivExp(2 * X[r][j], X[1][j]))]]

\* -------------------------------------------------------------- TFGaussian
Gaussian_energy_op(sigma, X) ==
    [j \in 1..Len(X[1]) |->
        DivInt(SumSeq([r \in 1..Len(X) |-> Rat(Sq(X[r][j]), 1)]), 2 * Sq(sigma))]
Gaussian_grad_op(sigma, X) ==
    [r \in 1..Len(X) |-> [j \in 1..Len(X[1]) |-> Rat(2 * X[r][j], 2 * Sq(sigma))]]

\* --------------------------------------------------------- SparseImageCode
LmbdaDen == 100          \* self.lmbda = 0.01 = 1 / LmbdaDen
\* the pickled dictionary dump_<n_basis>.pkl: imgs is [img_size, n_available],
\* basis is [img_size, n_coeffs] (small stand-ins for the 256-pixel data)
Data(n_basis) ==
    IF n_basis = 1024
    THEN [imgs |-> << <<1, 0>>, <<0, 2>> >>, basis |-> << <<1, 0>>, <<1, 1>> >>]
    ELSE [imgs |-> << <<1, 1>> >>, basis |-> << <<2>> >>]
\* self.imgs[:, :n_patches].T
Patches(imgs, n_patches) ==
    [p \in 1..n_patches |-> [i \in 1..Len(imgs) |-> imgs[i][p]]]
\* row-major flattening of the [ndims, b] placeholder
Flat(X) ==
    [f \in 1..(Len(X) * Len(X[1])) |->
        X[((f - 1) \div Len(X[1])) + 1][((f - 1) % Len(X[1])) + 1]]
\* tf.reshape(state_pl, [n_patches, -1, n_coeffs, 1])
shaped_state(X, n_patches, n_coeffs) ==
    LET B == (Len(X) * Len(X[1])) \div (n_patches * n_coeffs)
    IN  [p \in 1..n_patches |-> [j \in 1..B |-> [c \in 1..n_coeffs |->
            Flat(X)[((p - 1) * B + (j - 1)) * n_coeffs + c]]]]
\* np.tile(basis, (n_patches, nbatch, 1, 1))
full_tiled_basis(basis, n_patches, nbatch) ==
    [p \in 1..n_patches |-> [j \in 1..nbatch |-> basis]]
\* variant: the tiled basis is used at its full width nbatch
shaped_basis_unsliced(basis, n_patches, nbatch, n_active) ==
    full_tiled_basis(basis, n_patches, nbatch)
\* full_tiled_basis_tf[:, :n_active, :, :]
shaped_basis(basis, n_patches, nbatch, n_active) ==
    LET T == full_tiled_basis(basis, n_patches, nbatch)
    IN  [p \in 1..n_patches |->
            SubSeq(T[p], 1, IF n_active < nbatch THEN n_active ELSE nbatch)]
\* tf.batch_matmul needs equal batch dimensions
batch_matmul_ok(A, S) == Len(A) = Len(S) /\ \A p \in 1..Len(A) : Len(A[p]) = Len(S[p])
batch_matmul(A, S) ==
    [p \in 1..Len(A) |-> [j \in 1..Len(A[p]) |-> [i \in 1..Len(A[p][j]) |->
        LET row == A[p][j][i]
            RECURSIVE Dot(_)
            Dot(c) == IF c = 0 THEN 0 ELSE row[c] * S[p][j][c] + Dot(c - 1)
        IN  Dot(Len(row))]]]
reconstructions(o, X) ==
    batch_matmul(shaped_basis(o.basis, o.n_patches, o.nbatch, Len(X[1])),
                 shaped_state(X, o.n_patches, o.n_coeffs))
reconstruction_error(o, X) ==
    LET R == reconstructions(o, X)
        P == Patches(o.imgs, o.n_patches)
    IN  ReduceMean0(ReduceSumLast(
            [p \in 1..Len(R) |-> [j \in 1..Len(R[p]) |-> [i \in 1..Len(R[p][j]) |->
                Rat(Sq(P[p][i] - R[p][j][i]), 2)]]]))
LogTerm(x) ==
    IF x = 0 THEN Zero
    ELSE [n |-> 0, d |-> 1, e |-> 0, l |-> SetToBag({1 + Sq(x)})]
sp_penalty(o, X) ==
    [j \in 1..Len(X[1]) |->
        IF o.cauchy
        THEN SumSeq([r \in 1..Len(X) |-> LogTerm(X[r][j])])
        ELSE SumSeq([r \in 1..Len(X) |-> Rat(Abs(X[r][j]), LmbdaDen)])]
Sparse_run_ok(o, X) ==
    batch_matmul_ok(shaped_basis(o.basis, o.n_patches, o.nbatch, Len(X[1])),
                    shaped_state(X, o.n_patches, o.n_coeffs))
Sparse_energy_op(o, X) ==
    LET E == reconstruction_error(o, X)
        S == sp_penalty(o, X)
    IN  [j \in 1..Len(E) |-> Add(E[j], S[j])]
\* tf.gradients of the sum of energy_op with respect to state_pl: entry [r, j]
\* of the placeholder is entry (p, j2, c) of shaped_state
Sparse_grad_op(o, X) ==
    LET B == Len(X[1])
        R == reconstructions(o, X)
        P == Patches(o.imgs, o.n_patches)
    IN  [r \in 1..Len(X) |-> [j \in 1..B |->
            LET f  == (r - 1) * B + (j - 1)
                c  == (f % o.n_coeffs) + 1
                j2 == ((f \div o.n_coeffs) % B) + 1
                p  == (f \div (o.n_coeffs * B)) + 1
                x  == X[r][j]
                dRec == DivInt(SumSeq([i \in 1..Len(o.basis) |->
                            Rat(-((P[p][i] - R[p][j2][i]) * o.basis[i][c]), 1)]),
                               o.n_patches)
                dPen == IF o.cauchy THEN Rat(2 * x, (1 + Sq(x)) * LmbdaDen)
                        ELSE Rat(IF x > 0 THEN 1 ELSE IF x < 0 THEN -1 ELSE 0, LmbdaDen)
            IN  Add(dRec, dPen)]]

\* ------------------------------------------------------------ object state
VARIABLES obj, call
vars == <<obj, call>>

DevStr(d) == [kind |-> "str", s |-> d, keys |-> {}, grad |-> "", energy |-> ""]
DevMap(keys, g, e) == [kind |-> "dict", s |-> "", keys |-> keys, grad |-> g, energy |-> e]
DevOther == [kind |-> "other", s |-> "", keys |-> {}, grad |-> "", energy |-> ""]

NoOp == [graph |-> -1, kind |-> "none", fn |-> "none", rows |-> 0]
NoCall == [op |-> "none", X |-> <<>>, device |-> "", outcome |-> "none",
           value |-> <<>>, trace |-> "none"]
NoArgs == [cls |-> "none", scale |-> 0, sigma |-> 0, ndims |-> 0, nbatch |-> 0,
           n_patches |-> 0, cauchy |-> FALSE, n_basis |-> 0,
           device |-> DevOther, sess |-> "none", prof_run |-> FALSE]
\* an object slot before the constructor is entered: no attribute is set
Blank ==
    [pc |-> "absent", err |-> "none", at |-> "none", cls |-> "none", args |-> NoArgs,
     attrs |-> {}, scale |-> 0, sigma |-> 0, ndims |-> 0, nbatch |-> 0,
     n_patches |-> 0, n_coeffs |-> 0, img_size |-> 0, cauchy |-> FALSE,
     imgs |-> <<>>, basis |-> <<>>, patches |-> <<>>, writeable |-> TRUE,
     graph |-> -1, grad_device |-> "", energy_device |-> "", device |-> "",
     prof_run |-> FALSE, sess |-> [graph |-> -1, injected |-> FALSE],
     state_pl |-> NoOp, energy_op |-> NoOp, grad_op |-> NoOp, name |-> "",
     log |-> <<>>]

Raise(o, e) == [o EXCEPT !.pc = "failed", !.err = e, !.at = o.pc]
Other(i) == CHOOSE k \in Objs : k # i
\* the caller is single-threaded: a constructor runs to completion before the
\* caller's next statement
Idle == \A k \in Objs : obj[k].pc \in {"absent", "constructed", "failed"}

\* ------------------------------------------------- subclass constructors
Funnel_init(a) ==
    [Blank EXCEPT !.cls = "Funnel", !.args = a, !.scale = a.scale, !.ndims = a.ndims,
                  !.nbatch = a.nbatch, !.attrs = {"scale", "ndims", "nbatch", "Xinit"},
                  !.pc = "graph"]
TFGaussian_init(a) ==
    [Blank EXCEPT !.cls = "TFGaussian", !.args = a, !.sigma = a.sigma, !.ndims = a.ndims,
                  !.nbatch = a.nbatch, !.attrs = {"sigma", "ndims", "nbatch", "Xinit"},
                  !.pc = "graph"]
SparseImageCode_init(a) ==
    LET data == Data(a.n_basis)
        img_size == Len(data.basis)
        n_coeffs == Len(data.basis[1])
    IN  IF a.n_basis \notin {1024, 512}
        THEN Raise([Blank EXCEPT !.cls = "SparseImageCode", !.args = a,
                                 !.attrs = {"max_n_particles", "lmbda"}, !.pc = "subclass"],
                   "AssertionError")
        ELSE
        [Blank EXCEPT !.cls = "SparseImageCode", !.args = a,
                      !.imgs = data.imgs, !.basis = data.basis,
                      !.img_size = img_size, !.n_coeffs = n_coeffs,
                      !.ndims = a.n_patches * n_coeffs, !.nbatch = a.nbatch,
                      !.n_patches = a.n_patches, !.cauchy = a.cauchy,
                      !.patches = Patches(data.imgs, a.n_patches),
                      !.attrs = {"max_n_particles", "lmbda", "imgs", "basis", "img_size",
                                 "n_coeffs", "ndims", "nbatch", "n_patches", "cauchy",
                                 "patches"},
                      !.pc = "graph"]
\* TensorflowDistribution(...) called directly: no subclass sets anything
Base_init(a) == [Blank EXCEPT !.cls = "Base", !.args = a, !.pc = "graph"]

New(i, a) ==
    /\ Idle
    /\ obj[i].pc = "absent"
    /\ a.sess = "other" => obj[Other(i)].pc = "constructed"
    /\ obj' = [obj EXCEPT ![i] =
                 CASE a.cls = "Funnel" -> Funnel_init(a)
                   [] a.cls = "TFGaussian" -> TFGaussian_init(a)
                   [] a.cls = "SparseImageCode" -> SparseImageCode_init(a)
                   [] OTHER -> Base_init(a)]
    /\ UNCHANGED call

\* ------------------------------------- TensorflowDistribution.__init__
\* self.graph = tf.Graph(): a graph no other object or session knows
Init_Graph(i) ==
    /\ obj[i].pc = "graph"
    /\ obj' = [obj EXCEPT ![i] = [obj[i] EXCEPT !.graph = i, !.attrs = @ \cup {"graph"},
                                                !.pc = "device"]]
    /\ UNCHANGED call

\* variant: the two keys of the mapping are crossed
resolve_device_crossed(o) ==
    LET d == o.args.device
    IN  IF d.kind = "dict"
        THEN IF "grad" \notin d.keys \/ "energy" \notin d.keys
             THEN Raise(o, "AssertionError")
             ELSE [o EXCEPT !.grad_device = d.energy, !.energy_device = d.grad,
                            !.device = d.grad,
                            !.attrs = @ \cup {"grad_device", "energy_device", "device"},
                            !.pc = "session"]
        ELSE IF d.kind = "str"
             THEN [o EXCEPT !.grad_device = d.s, !.energy_device = d.s, !.device = d.s,
                            !.attrs = @ \cup {"grad_device", "energy_device", "device"},
                            !.pc = "session"]
             ELSE Raise(o, "AttributeError")
resolve_device(o) ==
    LET d == o.args.device
        o1 == IF d.kind = "dict"
              THEN IF "grad" \notin d.keys \/ "energy" \notin d.keys
                   THEN Raise(o, "AssertionError")
                   ELSE [o EXCEPT !.grad_device = d.grad, !.energy_device = d.energy,
                                  !.attrs = @ \cup {"grad_device", "energy_device"}]
              ELSE IF d.kind = "str"
                   THEN [o EXCEPT !.grad_device = d.s, !.energy_device = d.s,
                                  !.attrs = @ \cup {"grad_device", "energy_device"}]
                   ELSE o
    IN  IF o1.pc = "failed" THEN o1
        ELSE IF "energy_device" \notin o1.attrs THEN Raise(o1, "AttributeError")
        ELSE [o1 EXCEPT !.device = o1.energy_device, !.attrs = @ \cup {"device"},
                        !.pc = "session"]
Init_Device(i) ==
    /\ obj[i].pc = "device"
    /\ obj' = [obj EXCEPT ![i] = resolve_device(@)]
    /\ UNCHANGED call

\* self.sess = sess or tf.Session(config=...), inside self.graph.as_default():
\* a new session is bound to self.graph, a given one keeps its own graph
\* (the caller's default graph 0, or the graph of the object it was taken from)
adopt_session(o, given) ==
    IF o.args.sess = "none" THEN [graph |-> o.graph, injected |-> FALSE]
    ELSE [graph |-> given, injected |-> TRUE]
Init_Session(i) ==
    /\ obj[i].pc = "session"
    /\ LET o == obj[i]
           given == IF o.args.sess = "other" THEN obj[Other(i)].sess.graph ELSE 0
       IN  obj' = [obj EXCEPT ![i] =
                     [o EXCEPT !.prof_run = o.args.prof_run,
                               !.sess = adopt_session(o, given),
                               !.attrs = @ \cup {"prof_run", "sess"},
                               !.pc = "placeholder"]]
    /\ UNCHANGED call

\* ------------------------------------------------------------ build_graph
make_placeholder(o) ==
    IF "ndims" \notin o.attrs THEN Raise(o, "AttributeError")
    ELSE [o EXCEPT !.state_pl = [graph |-> o.graph, kind |-> "placeholder", fn |-> "none", rows |-> o.ndims],
                   !.attrs = @ \cup {"state_pl"},
                   !.log = Append(@, "placeholder"),
                   !.pc = "energy_op"]
BuildGraph_Placeholder(i) ==
    /\ obj[i].pc = "placeholder"
    /\ obj' = [obj EXCEPT ![i] = make_placeholder(@)]
    /\ UNCHANGED call

\* variant: the energy expression is built a second time
build_energy_op_twice(o) ==
    IF o.cls = "Base" THEN Raise(o, "NotImplementedError")
    ELSE [o EXCEPT !.energy_op = [graph |-> o.graph, kind |-> "energy", fn |-> o.cls, rows |-> 0],
                   !.attrs = @ \cup {"energy_op"},
                   !.log = Append(Append(@, "build_energy_op"), "build_energy_op"),
                   !.pc = "grad_op"]
build_energy_op(o) ==
    IF o.cls = "Base" THEN Raise(o, "NotImplementedError")
    ELSE [o EXCEPT !.energy_op = [graph |-> o.graph, kind |-> "energy", fn |-> o.cls, rows |-> 0],
                   !.attrs = @ \cup {"energy_op"},
                   !.log = Append(@, "build_energy_op"),
                   !.pc = "grad_op"]
BuildGraph_EnergyOp(i) ==
    /\ obj[i].pc = "energy_op"
    /\ obj' = [obj EXCEPT ![i] = build_energy_op(@)]
    /\ UNCHANGED call

make_grad_op(o) ==
    [o EXCEPT !.grad_op = [graph |-> o.graph, kind |-> "grad", fn |-> o.energy_op.fn, rows |-> o.state_pl.rows],
              !.attrs = @ \cup {"grad_op"},
              !.log = Append(@, "gradients"),
              !.pc = "init_variables"]
BuildGraph_GradOp(i) ==
    /\ obj[i].pc = "grad_op"
    /\ obj' = [obj EXCEPT ![i] = make_grad_op(@)]
    /\ UNCHANGED call

\* Session.run accepts only elements of the session's own graph
sess_run_ok(o, op) == op.graph = o.sess.graph
init_variables(o) ==
    IF ~sess_run_ok(o, [graph |-> o.graph, kind |-> "init", fn |-> "none", rows |-> 0])
    THEN Raise(o, "ValueError")
    ELSE [o EXCEPT !.log = Append(@, "init_variables"), !.pc = "finish"]
BuildGraph_InitVars(i) ==
    /\ obj[i].pc = "init_variables"
    /\ obj' = [obj EXCEPT ![i] = init_variables(@)]
    /\ UNCHANGED call

\* self.name = name or self.energy_op.op.name (each subclass passes its class
\* name); Distribution.__init__(ndims=self.ndims, nbatch=self.nbatch), twice
finish_init(o) ==
    [o EXCEPT !.name = IF o.cls = "Base" THEN "energy_op" ELSE o.cls,
              !.ndims = o.ndims, !.nbatch = o.nbatch,
              !.attrs = @ \cup {"name", "backend"},
              !.pc = "constructed"]
Init_Finish(i) ==
    /\ obj[i].pc = "finish"
    /\ obj' = [obj EXCEPT ![i] = finish_init(@)]
    /\ UNCHANGED call

\* ------------------------------------------------------ E_val / dEdX_val
run_energy(o, X) ==
    CASE o.energy_op.fn = "Funnel" -> Funnel_energy_op(o.scale, X)
      [] o.energy_op.fn = "TFGaussian" -> Gaussian_energy_op(o.sigma, X)
      [] OTHER -> Sparse_energy_op(o, X)
run_grad(o, X) ==
    CASE o.grad_op.fn = "Funnel" -> Funnel_grad_op(o.scale, X)
      [] o.grad_op.fn = "TFGaussian" -> Gaussian_grad_op(o.sigma, X)
      [] OTHER -> Sparse_grad_op(o, X)
\* the run is accepted when op and placeholder belong to the session's graph,
\* X has the placeholder's rows and the batched product's shapes agree
run_ok(o, op, X) ==
    /\ sess_run_ok(o, op)
    /\ sess_run_ok(o, o.state_pl)
    /\ Len(X) = o.state_pl.rows
    /\ op.fn = "SparseImageCode" => Sparse_run_ok(o, X)
\* self.sess.run(op, feed_dict={self.state_pl: X})
sess_run(o, op, X) == IF op.kind = "energy" THEN run_energy(o, X) ELSE run_grad(o, X)
\* self.sess.run(op, feed_dict=..., options=run_options, run_metadata=run_metadata)
sess_run_traced(o, op, X) == IF op.kind = "energy" THEN run_energy(o, X) ELSE run_grad(o, X)

\* variant: the traced branch hands back nothing
evaluate_traced_returns_none(o, op, device, X, writeOk) ==
    LET base == [NoCall EXCEPT !.op = op.kind, !.X = X, !.device = device]
    IN  IF ~run_ok(o, op, X)
        THEN [base EXCEPT !.outcome = "InvalidArgumentError"]
        ELSE IF o.prof_run
             THEN IF writeOk
                  THEN [base EXCEPT !.outcome = "returned", !.trace = "written"]
                  ELSE [base EXCEPT !.outcome = "IOError", !.trace = "failed"]
             ELSE [base EXCEPT !.outcome = "returned", !.value = sess_run(o, op, X)]
\* writeOk: whether open(log_path, 'w') and the write succeed
evaluate(o, op, device, X, writeOk) ==
    LET base == [NoCall EXCEPT !.op = op.kind, !.X = X, !.device = device]
    IN  IF ~run_ok(o, op, X)
        THEN [base EXCEPT !.outcome = "InvalidArgumentError"]
        ELSE IF o.prof_run
             THEN LET result == sess_run_traced(o, op, X)
                  IN  IF writeOk
                      THEN [base EXCEPT !.outcome = "returned", !.value = result,
                                        !.trace = "written"]
                      ELSE [base EXCEPT !.outcome = "IOError", !.trace = "failed"]
             ELSE [base EXCEPT !.outcome = "returned", !.value = sess_run(o, op, X)]

E_val(i) ==
    /\ Idle
    /\ obj[i].pc = "constructed"
    /\ call[i].op = "none"
    /\ \E b \in 1..obj[i].nbatch : \E X \in Batches(obj[i].ndims, b) :
       \E writeOk \in BOOLEAN :
          /\ ~obj[i].prof_run => writeOk
          /\ call' = [call EXCEPT ![i] =
                        evaluate(obj[i], obj[i].energy_op, obj[i].energy_device, X, writeOk)]
    /\ UNCHANGED obj

dEdX_val(i) ==
    /\ Idle
    /\ obj[i].pc = "constructed"
    /\ call[i].op = "none"
    /\ \E b \in 1..obj[i].nbatch : \E X \in Batches(obj[i].ndims, b) :
       \E writeOk \in BOOLEAN :
          /\ ~obj[i].prof_run => writeOk
          /\ call' = [call EXCEPT ![i] =
                        evaluate(obj[i], obj[i].grad_op, obj[i].grad_device, X, writeOk)]
    /\ UNCHANGED obj

\* ---------------------------------------------------------------- __hash__
\* the tuple handed to hash()
hash_input(o) ==
    CASE o.cls = "Funnel" -> <<o.scale, o.ndims>>
      [] o.cls = "TFGaussian" -> <<o.ndims, o.sigma>>
      [] o.cls = "SparseImageCode" ->
            <<o.imgs, o.basis, LmbdaDen, o.n_patches, o.n_coeffs>>
      [] OTHER -> <<o.ndims, o.name>>
Hash(i) ==
    /\ Idle
    /\ obj[i].pc = "constructed"
    /\ call[i].op = "none"
    /\ call' = [call EXCEPT ![i] = [NoCall EXCEPT !.op = "hash", !.outcome = "returned",
                                                  !.value = hash_input(obj[i])]]
    /\ obj' = [obj EXCEPT ![i] =
                 [obj[i] EXCEPT !.writeable =
                                   IF obj[i].cls = "SparseImageCode" THEN FALSE ELSE @]]

\* call[i] is what the last call on object i handed to its caller (the array
\* returned or the exception raised); the caller takes it before calling again
Return(i) ==
    /\ call[i].op # "none"
    /\ call' = [call EXCEPT ![i] = NoCall]
    /\ UNCHANGED obj

\* ---------------------------------------------------------- specifications
Both == {"grad", "energy"}
Devs == {DevStr("/cpu:0"), DevMap(Both, "/gpu:0", "/cpu:0"),
         DevMap({"energy"}, "", "/cpu:0"), DevMap({"grad"}, "/cpu:0", ""), DevOther}
ClassArgs ==
    {[NoArgs EXCEPT !.cls = "Funnel", !.scale = s, !.ndims = n, !.nbatch = b] :
        s \in {1, 2}, n \in Ndims, b \in 1..MaxBatch}
    \cup {[NoArgs EXCEPT !.cls = "TFGaussian", !.sigma = s, !.ndims = n, !.nbatch = b] :
        s \in {1, 2}, n \in Ndims, b \in 1..MaxBatch}
    \cup {[NoArgs EXCEPT !.cls = "SparseImageCode", !.n_patches = p, !.cauchy = c,
                         !.n_basis = nb, !.nbatch = b] :
        p \in {1, 2}, c \in BOOLEAN, nb \in {512}, b \in 1..MaxBatch}
    \cup {[NoArgs EXCEPT !.cls = "SparseImageCode", !.n_patches = 1, !.cauchy = c,
                         !.n_basis = 1024, !.nbatch = b] :
        c \in BOOLEAN, b \in 1..MaxBatch}
    \cup {[NoArgs EXCEPT !.cls = "SparseImageCode", !.n_patches = 1, !.n_basis = 256,
                         !.nbatch = 1]}
    \cup {[NoArgs EXCEPT !.cls = "Base"]}
Args ==
    {[a EXCEPT !.device = d, !.sess = s, !.prof_run = p] :
        a \in ClassArgs, d \in Devs, s \in {"none", "default"}, p \in BOOLEAN}

PairDevs == {DevStr("/cpu:0"), DevMap(Both, "/cpu:0", "/cpu:0"),
             DevMap(Both, "/gpu:0", "/cpu:0")}
PairClassArgs ==
    {[NoArgs EXCEPT !.cls = "Funnel", !.scale = s, !.ndims = 2, !.nbatch = 1] : s \in {1, 2}}
    \cup {[NoArgs EXCEPT !.cls = "TFGaussian", !.sigma = s, !.ndims = 2, !.nbatch = 1] :
            s \in {1, 2}}
    \cup {[NoArgs EXCEPT !.cls = "SparseImageCode", !.n_patches = 1, !.cauchy = c,
                         !.n_basis = 1024, !.nbatch = 1] : c \in BOOLEAN}
PairArgs ==
    {[a EXCEPT !.device = d, !.sess = s] :
        a \in PairClassArgs, d \in PairDevs, s \in {"none", "other"}}

Init ==
    /\ obj = [i \in Objs |-> Blank]
    /\ call = [i \in Objs |-> NoCall]

Step(i) ==
    \/ Init_Graph(i)
    \/ Init_Device(i)
    \/ Init_Session(i)
    \/ BuildGraph_Placeholder(i)
    \/ BuildGraph_EnergyOp(i)
    \/ BuildGraph_GradOp(i)
    \/ BuildGraph_InitVars(i)
    \/ Init_Finish(i)
    \/ E_val(i)
    \/ dEdX_val(i)
    \/ Hash(i)
    \/ Return(i)

\* one instance, every class and every construction argument
Next ==
    \/ \E a \in Args : New(1, a)
    \/ Step(1)
Spec == Init /\ [][Next]_vars

\* two instances built one after the other
NextPair ==
    \/ \E i \in Objs : \E a \in PairArgs :
          /\ i = 2 => obj[1].pc # "absent"
          /\ New(i, a)
    \/ \E i \in Objs : Step(i)
SpecPair == Init /\ [][NextPair]_vars

\* ==================================================================== claims
Lifecycle == <<"placeholder", "build_energy_op", "gradients", "init_variables">>
IsPrefix(s, t) == Len(s) <= Len(t) /\ SubSeq(t, 1, Len(s)) = s
Evaluated(i) == obj[i].pc = "constructed" /\ call[i].op \in {"energy", "grad"}
\* the value handed back has the shape [b] (energy) or [ndims, b] (gradient)
ShapeOk(i) ==
    LET b == Len(call[i].X[1])
    IN  IF call[i].op = "energy" THEN Shape1(call[i].value) = <<b>>
        ELSE Shape2(call[i].value) = <<obj[i].ndims, b>>
\* the value handed back is the value of the untraced run of the same op
SameAsUntraced(i) ==
    IF call[i].op = "energy"
    THEN VecEq(call[i].value, sess_run(obj[i], obj[i].energy_op, call[i].X))
    ELSE MatEq(call[i].value, sess_run(obj[i], obj[i].grad_op, call[i].X))

\* C1: for a Funnel, every entry j of energy(X) is
\* -(x0^2/scale^2) - sum_k x_k^2/exp(x0): the x0 term enters once, whatever ndims
C1_FunnelEnergyFormula ==
    \A i \in Objs :
        (obj[i].cls = "Funnel" /\ Evaluated(i) /\ call[i].op = "energy"
            /\ call[i].outcome = "returned") =>
        LET X == call[i].X
        IN  \A j \in 1..Len(X[1]) :
              ValEq(call[i].value[j],
                    Add(Neg(Rat(Sq(X[1][j]), Sq(obj[i].scale))),
                        SumSeq([k \in 1..(Len(X) - 1) |->
                                  Neg(DivExp(Sq(X[k + 1][j]), X[1][j]))])))

\* C2 (as claimed): every energy(X) and gradient(X) call with 1 <= b <= nbatch
\* succeeds and returns shape [b], respectively [ndims, b]
C2_CallsSucceedWithShapes ==
    \A i \in Objs : Evaluated(i) => (call[i].outcome = "returned" /\ ShapeOk(i))
\* C2 (amended): the call returns the claimed shape unless trace capture is
\* on and the trace file cannot be written, and then it raises IOError
C2_ShapesUnlessTraceWriteFails ==
    \A i \in Objs : Evaluated(i) =>
        \/ call[i].outcome = "returned" /\ ShapeOk(i)
        \/ call[i].outcome = "IOError" /\ obj[i].prof_run /\ call[i].trace = "failed"
C2_Witness ==
    \E i \in Objs :
        /\ obj[i].cls = "SparseImageCode" /\ Evaluated(i)
        /\ obj[i].nbatch = 2 /\ Len(call[i].X[1]) = 1
        /\ call[i].op = "grad" /\ call[i].outcome = "returned"
        /\ Shape2(call[i].value) = <<obj[i].ndims, 1>>

\* C3: constructing the base class directly fails with NotImplementedError,
\* the first error on the construction path
C3_BaseRaisesNotImplemented ==
    \A i \in Objs :
        (obj[i].cls = "Base" /\ obj[i].pc = "failed" /\ obj[i].args.device.kind = "str")
            => obj[i].err = "NotImplementedError"

\* the configuration checks of the code are assert statements
ConfigurationError == {"AssertionError"}
\* C4: a malformed device specification (a mapping lacking grad or energy, or a
\* value that is neither string nor mapping) fails with ConfigurationError
\* before any graph op is built
C4_MalformedDeviceConfigurationError ==
    \A i \in Objs :
        LET d == obj[i].args.device
            malformed == d.kind = "other" \/ (d.kind = "dict" /\ d.keys # Both)
        IN  (malformed /\ obj[i].pc \in {"session", "failed"}) =>
                /\ obj[i].pc = "failed"
                /\ obj[i].err \in ConfigurationError
                /\ obj[i].log = <<>>

\* C5: a string d resolves to (energy, grad) = (d, d), a mapping to (e, g); a
\* string d and the mapping {grad: d, energy: d} give the same devices and the
\* same result of every energy and gradient call
SameModel(i, j) ==
    /\ obj[i].pc = "constructed" /\ obj[j].pc = "constructed"
    /\ [obj[i].args EXCEPT !.device = DevOther] = [obj[j].args EXCEPT !.device = DevOther]
C5_DeviceResolution ==
    /\ \A i \in Objs : "energy_device" \in obj[i].attrs =>
          LET d == obj[i].args.device
          IN  /\ d.kind = "str" => <<obj[i].energy_device, obj[i].grad_device>> = <<d.s, d.s>>
              /\ d.kind = "dict" =>
                    <<obj[i].energy_device, obj[i].grad_device>> = <<d.energy, d.grad>>
    /\ \A i, j \in Objs :
          (/\ SameModel(i, j)
           /\ obj[i].args.device.kind = "str"
           /\ obj[j].args.device = DevMap(Both, obj[i].args.device.s, obj[i].args.device.s))
          => /\ obj[i].energy_device = obj[j].energy_device
             /\ obj[i].grad_device = obj[j].grad_device
             /\ (call[i].op = call[j].op /\ call[i].X = call[j].X) => call[i] = call[j]
C5_Witness ==
    \E i, j \in Objs :
        /\ SameModel(i, j)
        /\ obj[i].args.device = DevStr("/cpu:0")
        /\ obj[j].args.device = DevMap(Both, "/cpu:0", "/cpu:0")
        /\ call[i].op = "grad" /\ call[j].op = "grad"
        /\ call[i].outcome = "returned"
        /\ call[i].X = call[j].X
        /\ \E r \in 1..Len(call[i].X) : call[i].X[r][1] # 0

\* C6 (as claimed): with trace capture on, energy(X) and gradient(X) hand back
\* the value of the untraced run, whatever the outcome of the trace-file write
C6_TraceNeverLosesResult ==
    \A i \in Objs : (Evaluated(i) /\ obj[i].prof_run) =>
        (call[i].outcome = "returned" /\ SameAsUntraced(i))
\* C6 (amended): with trace capture on, a call whose trace file is written
\* hands back the value of the untraced run; a call whose trace file cannot be
\* written raises IOError and hands back no value
C6_TraceKeepsValueWhenWritten ==
    \A i \in Objs : (Evaluated(i) /\ obj[i].prof_run) =>
        \/ call[i].trace = "written" /\ call[i].outcome = "returned" /\ SameAsUntraced(i)
        \/ call[i].trace = "failed" /\ call[i].outcome = "IOError" /\ call[i].value = <<>>
C6_Witness ==
    \E i \in Objs :
        /\ Evaluated(i) /\ obj[i].prof_run
        /\ call[i].op = "energy" /\ call[i].trace = "written"
        /\ call[i].outcome = "returned"
        /\ \E j \in 1..Len(call[i].value) : ~ValEq(call[i].value[j], Zero)

\* two instances define different energy functions when their dimensions
\* differ or some batch gets different energies
DifferentEnergy(i, j) ==
    \/ obj[i].ndims # obj[j].ndims
    \/ \E X \in Batches(obj[i].ndims, 1) :
          ~VecEq(run_energy(obj[i], X), run_energy(obj[j], X))
Hashed(i) == obj[i].pc = "constructed" /\ call[i].op = "hash"
\* C7: hash() is a function of the parameters that determine the energy: equal
\* parameters give equal hashes, and two instances of a class with different
\* energy functions give different hash inputs
C7_HashDeterminesEnergy ==
    \A i, j \in Objs :
        (Hashed(i) /\ Hashed(j) /\ obj[i].cls = obj[j].cls) =>
            /\ SameModel(i, j) => call[i].value = call[j].value
            /\ DifferentEnergy(i, j) => call[i].value # call[j].value

\* C8: placeholder, build_energy_op, gradients and variable initialization
\* happen once each, in that order, during construction; once constructed, no
\* call changes the placeholder, energy_op, grad_op, ndims, nbatch or runs a
\* build step again
Built(o) == <<o.state_pl, o.energy_op, o.grad_op, o.ndims, o.nbatch, o.log>>
C8_GraphLifecycle ==
    /\ [](\A i \in Objs :
            /\ IsPrefix(obj[i].log, Lifecycle)
            /\ obj[i].pc = "constructed" => obj[i].log = Lifecycle)
    /\ [][\A i \in Objs :
            obj[i].pc = "constructed" =>
                (obj[i].pc' = "constructed" /\ Built(obj[i])' = Built(obj[i]))]_vars
C8_Witness ==
    \E i \in Objs :
        /\ obj[i].pc = "constructed" /\ obj[i].log = Lifecycle
        /\ obj[i].cls = "SparseImageCode" /\ ~obj[i].writeable
        /\ call[i].op = "energy" /\ call[i].outcome = "returned"

\* C9: the execution context a model holds, created or injected, is bound to
\* the model's own graph
C9_ContextBoundToOwnGraph ==
    \A i \in Objs : "sess" \in obj[i].attrs => obj[i].sess.graph = obj[i].graph

\* C10: entry j of energy(X) is the energy of the one-column batch X[:, j]
C10_ColumnsIndependent ==
    \A i \in Objs :
        (Evaluated(i) /\ call[i].op = "energy" /\ call[i].outcome = "returned") =>
            \A j \in 1..Len(call[i].X[1]) :
                ValEq(call[i].value[j],
                      sess_run(obj[i], obj[i].energy_op, Column(call[i].X, j))[1])

====
